---- MODULE Spec2Model ----
(***************************************************************************)
(* The UDP tunnel channel of the playit agent (agent_core/src/tunnel/      *)
(* udp_tunnel.rs) driven by the two tasks of examples/echo_tunnel.rs: the  *)
(* receive task (receive_from, send, resend_token) and the scheduler task  *)
(* (set_udp_tunnel, is_setup).  Every await of the code is a step border:  *)
(* the details lock is released at the end of get_sock / of the first      *)
(* block of set_udp_tunnel / of the first block of resend_token, the       *)
(* socket I/O follows in a later step, and an atomic store follows the     *)
(* clock reading it stores.                                                *)
(***************************************************************************)
EXTENDS Integers, Sequences, FiniteSets, TLC

VARIABLES
    udp6,          \* Inner.udp6 is Some: an IPv6 socket was bound by new()
    details,       \* Inner.details: RwLock<Option<UdpChannelDetails>>
    last_confirm,  \* Inner.last_confirm: AtomicU64
    last_send,     \* Inner.last_send: AtomicU64
    now,           \* the wall clock read by now_milli()
    rx,            \* the receive task: its position and the locals of its call
    sc,            \* the scheduler task: its position and the locals of its call
    ev,            \* the step just taken: operation, input, result, transmission
    lp             \* the receive loop of the driver: its position, its last_confirm

vars == <<udp6, details, last_confirm, last_send, now, rx, sc, ev, lp>>

----------------------------------------------------------------------------
(* Bounds of the model.                                                    *)

\* The clock advances at most MaxTicks times by one millisecond.
MaxTicks == 2
\* The largest receive buffer a caller passes; it holds every datagram below.
MaxBuf == 6

(* Program constants.                                                      *)

\* requires_resend: "send token every 10 seconds"
RESEND_MS == 10000
\* requires_auth: 5_000 < now - last_send
AUTH_MS == 5000
\* now_milli() of a running process is far beyond both thresholds; the model's
\* epoch is scaled down to the first clock reading of the run.
StartTime == 20000

----------------------------------------------------------------------------
(* Values.                                                                 *)

Min(a, b) == IF a < b THEN a ELSE b
Max(a, b) == IF a < b THEN b ELSE a

\* SocketAddr: address family, host and port.
A4 == [fam |-> 4, ip |-> 1, port |-> 1]
B4 == [fam |-> 4, ip |-> 1, port |-> 2]
A6 == [fam |-> 6, ip |-> 1, port |-> 1]
Addrs == {A4, B4, A6}

T1 == <<1>>
T2 == <<1, 2>>
Tokens == {T1, T2}

\* UdpChannelDetails { tunnel_addr, token }
Details == [tunnel_addr : Addrs, token : Tokens]

\* Option<UdpChannelDetails>
None == [some |-> FALSE]
Some(d) == [some |-> TRUE, v |-> d]

\* UdpFlow (tunnel/udp_proto.rs): a V4 and a V6 variant, each with a
\* fixed-length tail closed by the footer that names the variant.
FOOTER_V4 == 4
FOOTER_V6 == 6
len_v4 == 3
len_v6 == 4
Flows == {[fam |-> 4, src |-> 1, dst |-> 2],
          [fam |-> 6, src |-> 1, dst |-> 2, flow |-> 1]}

flow_len(f) == IF f.fam = 4 THEN len_v4 ELSE len_v6

\* UdpFlow::write_to
write_to(f) ==
    IF f.fam = 4 THEN <<f.src, f.dst, FOOTER_V4>>
    ELSE <<f.src, f.dst, f.flow, FOOTER_V6>>

\* UdpFlow::flip
flip(f) == [f EXCEPT !.src = f.dst, !.dst = f.src]

\* UdpFlow::from_tail: Option<UdpFlow>
from_tail(s) ==
    IF Len(s) >= len_v4 /\ s[Len(s)] = FOOTER_V4
        THEN [some |-> TRUE,
              v |-> [fam |-> 4, src |-> s[Len(s) - 2], dst |-> s[Len(s) - 1]]]
    ELSE IF Len(s) >= len_v6 /\ s[Len(s)] = FOOTER_V6
        THEN [some |-> TRUE,
              v |-> [fam |-> 6, src |-> s[Len(s) - 3], dst |-> s[Len(s) - 2],
                     flow |-> s[Len(s) - 1]]]
    ELSE [some |-> FALSE]

\* Payloads a datagram on the wire may carry.
InPayloads ==
    {<<>>, <<1>>, <<2>>, <<1, 2>>, <<1, 1>>, <<1, 2, 1>>, <<2, FOOTER_V4>>,
     <<1, 2, FOOTER_V4>>, <<1, 1, 2, FOOTER_V4>>, <<1, 2, 1, 2, 1, FOOTER_V6>>}

\* Receive buffers a caller passes: one byte, and one that holds everything.
BufLens == {1, MaxBuf}

\* Payloads a caller hands to send.
OutPayloads == {<<>>, <<1>>}

\* Flows a caller hands to send: those of the datagrams, and their replies.
SendFlows == Flows \cup {flip(f) : f \in Flows}

----------------------------------------------------------------------------
(* Results and events.                                                     *)

Ok(v) == [k |-> "Ok", v |-> v]
\* Ok(()), Ok(bool), Ok(usize) and the two variants of UdpTunnelRx
Unit == [unit |-> TRUE]
Bool(b) == [b |-> b]
Usize(n) == [n |-> n]
ConfirmedConnection == [rx |-> "ConfirmedConnection"]
ReceivedPacket(bytes, flow) ==
    [rx |-> "ReceivedPacket", bytes |-> bytes, flow |-> flow]
Err(e) == [k |-> "Err", err |-> e]
NoRet == [k |-> "-"]
NoTx == [sent |-> FALSE]
\* A datagram handed to a socket's send_to.
Tx(sock, dst, data, ok) ==
    [sent |-> TRUE, sock |-> sock, dst |-> dst, data |-> data, ok |-> ok]
NoArg == [a |-> "-"]

Ev(task, op, step, arg, ret, tx) ==
    [task |-> task, op |-> op, step |-> step, arg |-> arg, ret |-> ret, tx |-> tx]

Idle == [pc |-> "idle"]

\* A task aborted by a panic.
Panicked == [pc |-> "panicked"]

\* The task whose locals are l owns a guard of the details lock across an
\* await ("read": RwLockReadGuard, "write": RwLockWriteGuard).
HoldsGuard(l) == "guard" \in DOMAIN l
HoldsWrite(l) == HoldsGuard(l) /\ l.guard = "write"

\* The receive loop at the position at, with its own last_confirm; waited
\* is how long the await it is in has lasted.
Loop(at, confirm) == [at |-> at, last_confirm |-> confirm, waited |-> 0]

\* The receive loop at its top, before any ConfirmedConnection.
LoopTop == Loop("top", 0)

----------------------------------------------------------------------------
(* Pure parts of the code.                                                 *)

\* requires_resend with the comparison made non-strict.
requires_resend_at_10s == RESEND_MS <= now - last_confirm

\* UdpTunnel::requires_resend
requires_resend == RESEND_MS < now - last_confirm

\* requires_auth without the "send is confirmed" return.
requires_auth_unconfirmed_only == AUTH_MS < now - last_send

\* requires_auth taking a confirmation of the same millisecond as confirmed.
requires_auth_confirmed_at_equal ==
    IF last_send <= last_confirm THEN FALSE
    ELSE AUTH_MS < now - last_send

\* UdpTunnel::requires_auth
requires_auth ==
    IF last_send < last_confirm THEN FALSE
    ELSE AUTH_MS < now - last_send

\* is_setup answering true only once a confirmation was stored.
is_setup_when_confirmed == details.some /\ last_confirm # 0

\* UdpTunnel::is_setup
is_setup == details.some

\* get_sock falling back to the IPv4 socket and a default endpoint when no
\* details are installed.
get_sock_without_details ==
    IF ~details.some
        THEN [k |-> "Ok", sock |-> 4, tunnel_addr |-> A4, token |-> <<>>]
    ELSE IF details.v.tunnel_addr.fam = 4 \/ udp6
        THEN [k |-> "Ok", sock |-> details.v.tunnel_addr.fam,
              tunnel_addr |-> details.v.tunnel_addr, token |-> details.v.token]
    ELSE [k |-> "Panic"]

\* UdpTunnel::get_sock: the socket, endpoint and token of the installed
\* details; udp6.as_ref().unwrap() aborts the calling task when the endpoint
\* is IPv6 and no IPv6 socket is bound.
get_sock ==
    IF ~details.some THEN [k |-> "Err", err |-> "NotConnected"]
    ELSE IF details.v.tunnel_addr.fam = 4
        THEN [k |-> "Ok", sock |-> 4, tunnel_addr |-> details.v.tunnel_addr,
              token |-> details.v.token]
    ELSE IF udp6
        THEN [k |-> "Ok", sock |-> 6, tunnel_addr |-> details.v.tunnel_addr,
              token |-> details.v.token]
    ELSE [k |-> "Panic"]

\* What recv_from leaves in a buffer of buf bytes: the datagram, cut to buf.
Received(payload, buf) == SubSeq(payload, 1, Min(Len(payload), buf))

\* receive_from without the comparison of the sender with the endpoint.
Classify_any_sender(tunnel_addr, token, remote, payload, buf) ==
    LET data == Received(payload, buf)
        footer == from_tail(data)
    IN  IF data = token THEN Ok(ConfirmedConnection)
        ELSE IF buf + Max(len_v4, len_v6) < Len(data) THEN Err("WriteZero")
        ELSE IF ~footer.some THEN Err("InvalidData")
        ELSE Ok(ReceivedPacket(Len(data) - flow_len(footer.v), footer.v))

\* receive_from taking a datagram that starts with the token for the token.
Classify_token_prefix(tunnel_addr, token, remote, payload, buf) ==
    LET data == Received(payload, buf)
        footer == from_tail(data)
    IN  IF tunnel_addr # remote THEN Err("InvalidData")
        ELSE IF Len(data) >= Len(token) /\ SubSeq(data, 1, Len(token)) = token
            THEN Ok(ConfirmedConnection)
        ELSE IF buf + Max(len_v4, len_v6) < Len(data) THEN Err("WriteZero")
        ELSE IF ~footer.some THEN Err("InvalidData")
        ELSE Ok(ReceivedPacket(Len(data) - flow_len(footer.v), footer.v))

\* UdpTunnel::receive_from after recv_from returned (bytes, remote): the
\* checks of lines 141-162 against the endpoint and token get_sock returned.
Classify(tunnel_addr, token, remote, payload, buf) ==
    LET data == Received(payload, buf)
        bytes == Len(data)
        footer == from_tail(data)
    IN  IF tunnel_addr # remote THEN Err("InvalidData")
        ELSE IF data = token THEN Ok(ConfirmedConnection)
        ELSE IF buf + Max(len_v4, len_v6) < bytes THEN Err("WriteZero")
        ELSE IF ~footer.some THEN Err("InvalidData")
        ELSE Ok(ReceivedPacket(bytes - flow_len(footer.v), footer.v))

\* send_token up to the end of send_to: the transmission it makes, and the
\* error it returns ("" when the send succeeded).
send_to_token(d, ok) ==
    IF d.tunnel_addr.fam = 4
        THEN [tx |-> Tx(4, d.tunnel_addr, d.token, ok),
              err |-> IF ok THEN "" ELSE "Io"]
    ELSE IF ~udp6 THEN [tx |-> NoTx, err |-> "Unsupported"]
    ELSE [tx |-> Tx(6, d.tunnel_addr, d.token, ok),
          err |-> IF ok THEN "" ELSE "Io"]

----------------------------------------------------------------------------
(* The tasks.                                                              *)

Local(task) == IF task = "rx" THEN rx ELSE sc
SetLocal(task, l) ==
    IF task = "rx" THEN rx' = l /\ UNCHANGED sc ELSE sc' = l /\ UNCHANGED rx

\* UdpTunnel::new
Init ==
    /\ udp6 \in BOOLEAN
    /\ details = None
    /\ last_confirm = 0
    /\ last_send = 0
    /\ now = StartTime
    /\ rx = Idle
    /\ sc = Idle
    /\ ev = Ev("-", "new", "return", NoArg, NoRet, NoTx)
    /\ lp = LoopTop

\* The wall clock moves on.
Tick ==
    /\ now < StartTime + MaxTicks
    /\ now' = now + 1
    /\ ev' = Ev("-", "tick", "tick", NoArg, NoRet, NoTx)
    /\ UNCHANGED <<udp6, details, last_confirm, last_send, rx, sc>>

\* The scheduler's ping tick: is_setup under the read lock, and the setup
\* request to the control channel when it answers false.
call_is_setup ==
    /\ sc.pc = "idle"
    /\ ~HoldsWrite(rx)
    /\ ev' = Ev("sc", "is_setup", "return", [setup_request |-> ~is_setup],
                Ok(Bool(is_setup)), NoTx)
    /\ UNCHANGED <<udp6, details, last_confirm, last_send, now, rx, sc>>

\* set_udp_tunnel without the "details haven't changed" exit.
set_udp_tunnel_always(d) ==
    /\ sc.pc = "idle"
    /\ ~HoldsGuard(rx)
    /\ details' = Some(d)
    /\ sc' = [pc |-> "send_token", op |-> "set_udp_tunnel", d |-> d]
    /\ ev' = Ev("sc", "set_udp_tunnel", "replace", d, NoRet, NoTx)
    /\ UNCHANGED <<udp6, last_confirm, last_send, now, rx>>

\* UdpTunnel::set_udp_tunnel, the block that holds the write lock.
set_udp_tunnel(d) ==
    /\ sc.pc = "idle"
    /\ ~HoldsGuard(rx)
    /\ IF details.some /\ d = details.v
          THEN /\ ev' = Ev("sc", "set_udp_tunnel", "unchanged", d, Ok(Unit), NoTx)
               /\ UNCHANGED <<details, sc>>
          ELSE /\ details' = Some(d)
               /\ sc' = [pc |-> "send_token", op |-> "set_udp_tunnel", d |-> d]
               /\ ev' = Ev("sc", "set_udp_tunnel", "replace", d, NoRet, NoTx)
    /\ UNCHANGED <<udp6, last_confirm, last_send, now, rx>>

\* UdpTunnel::resend_token, the block that holds the read lock.
resend_token ==
    /\ rx.pc = "idle"
    /\ ~HoldsWrite(sc)
    /\ IF ~details.some
          THEN /\ ev' = Ev("rx", "resend_token", "return", NoArg, Ok(Bool(FALSE)), NoTx)
               /\ UNCHANGED rx
          ELSE /\ rx' = [pc |-> "send_token", op |-> "resend_token", d |-> details.v]
               /\ ev' = Ev("rx", "resend_token", "read", details.v, NoRet, NoTx)
    /\ UNCHANGED <<udp6, details, last_confirm, last_send, now, sc>>

\* Where a call that returned an error leaves its task: the scheduler
\* unwraps the result of set_udp_tunnel, the receive loop logs it.
AfterErr(task) == IF task = "sc" THEN Panicked ELSE Idle

\* send_token going on to last_send.store after a send_to that failed.
send_token_ignoring_error(task) ==
    /\ Local(task).pc = "send_token"
    /\ \E ok \in BOOLEAN :
        LET l == Local(task)
            r == send_to_token(l.d, ok)
        IN  /\ SetLocal(task, [pc |-> "store_last_send", op |-> l.op,
                                d |-> l.d, t |-> now])
            /\ ev' = Ev(task, l.op, "send_to", l.d, NoRet, r.tx)
    /\ UNCHANGED <<udp6, details, last_confirm, last_send, now>>

\* UdpTunnel::send_token: send_to, and the clock reading that follows it.
send_token(task) ==
    /\ Local(task).pc = "send_token"
    /\ \E ok \in BOOLEAN :
        LET l == Local(task)
            r == send_to_token(l.d, ok)
        IN  IF r.err = ""
               THEN /\ SetLocal(task, [pc |-> "store_last_send", op |-> l.op,
                                       d |-> l.d, t |-> now])
                    /\ ev' = Ev(task, l.op, "send_to", l.d, NoRet, r.tx)
               ELSE /\ SetLocal(task, AfterErr(task))
                    /\ ev' = Ev(task, l.op, "return", l.d, Err(r.err), r.tx)
    /\ UNCHANGED <<udp6, details, last_confirm, last_send, now>>

\* send_token storing the clock reading in last_confirm.
store_last_send_in_confirm(task) ==
    /\ Local(task).pc = "store_last_send"
    /\ LET l == Local(task)
       IN  /\ last_confirm' = l.t
           /\ SetLocal(task, Idle)
           /\ ev' = Ev(task, l.op, "return", l.d,
                       IF l.op = "resend_token" THEN Ok(Bool(TRUE)) ELSE Ok(Unit),
                       NoTx)
    /\ UNCHANGED <<udp6, details, last_send, now>>

\* UdpTunnel::send_token: last_send.store, and the caller's Ok.
store_last_send(task) ==
    /\ Local(task).pc = "store_last_send"
    /\ LET l == Local(task)
       IN  /\ last_send' = l.t
           /\ SetLocal(task, Idle)
           /\ ev' = Ev(task, l.op, "return", l.d,
                       IF l.op = "resend_token" THEN Ok(Bool(TRUE)) ELSE Ok(Unit),
                       NoTx)
    /\ UNCHANGED <<udp6, details, last_confirm, now>>

\* UdpTunnel::send up to the end of get_sock.
send(data, flow) ==
    /\ rx.pc = "idle"
    /\ ~HoldsWrite(sc)
    /\ LET packet == data \o write_to(flow)
           arg == [data |-> data, flow |-> flow]
           r == get_sock
       IN  CASE r.k = "Err" ->
                  /\ ev' = Ev("rx", "send", "return", arg, Err(r.err), NoTx)
                  /\ UNCHANGED rx
             [] r.k = "Panic" ->
                  /\ rx' = [pc |-> "panicked"]
                  /\ ev' = Ev("rx", "send", "panic", arg, NoRet, NoTx)
             [] r.k = "Ok" ->
                  /\ rx' = [pc |-> "send_to", sock |-> r.sock,
                            tunnel_addr |-> r.tunnel_addr, packet |-> packet,
                            arg |-> arg]
                  /\ ev' = Ev("rx", "send", "get_sock", arg, NoRet, NoTx)
    /\ UNCHANGED <<udp6, details, last_confirm, last_send, now, sc>>

\* UdpTunnel::send: socket.send_to(&data, tunnel_addr)
send_to ==
    /\ rx.pc = "send_to"
    /\ \E ok \in BOOLEAN :
        ev' = Ev("rx", "send", "return", rx.arg,
                 IF ok THEN Ok(Usize(Len(rx.packet))) ELSE Err("Io"),
                 Tx(rx.sock, rx.tunnel_addr, rx.packet, ok))
    /\ rx' = Idle
    /\ UNCHANGED <<udp6, details, last_confirm, last_send, now, sc>>

\* receive_from keeping the read guard of get_sock while it waits in recv_from.
receive_from_holding_guard(buf) ==
    /\ rx.pc = "idle"
    /\ ~HoldsWrite(sc)
    /\ LET arg == [buf |-> buf]
           r == get_sock
       IN  CASE r.k = "Err" ->
                  /\ ev' = Ev("rx", "receive_from", "return", arg, Err(r.err), NoTx)
                  /\ UNCHANGED rx
             [] r.k = "Panic" ->
                  /\ rx' = [pc |-> "panicked"]
                  /\ ev' = Ev("rx", "receive_from", "panic", arg, NoRet, NoTx)
             [] r.k = "Ok" ->
                  /\ rx' = [pc |-> "recv_from", sock |-> r.sock,
                            tunnel_addr |-> r.tunnel_addr, token |-> r.token,
                            buf |-> buf, guard |-> "read"]
                  /\ ev' = Ev("rx", "receive_from", "get_sock", arg, NoRet, NoTx)
    /\ UNCHANGED <<udp6, details, last_confirm, last_send, now, sc>>

\* UdpTunnel::receive_from up to the end of get_sock.
receive_from(buf) ==
    /\ rx.pc = "idle"
    /\ ~HoldsWrite(sc)
    /\ LET arg == [buf |-> buf]
           r == get_sock
       IN  CASE r.k = "Err" ->
                  /\ ev' = Ev("rx", "receive_from", "return", arg, Err(r.err), NoTx)
                  /\ UNCHANGED rx
             [] r.k = "Panic" ->
                  /\ rx' = [pc |-> "panicked"]
                  /\ ev' = Ev("rx", "receive_from", "panic", arg, NoRet, NoTx)
             [] r.k = "Ok" ->
                  /\ rx' = [pc |-> "recv_from", sock |-> r.sock,
                            tunnel_addr |-> r.tunnel_addr, token |-> r.token,
                            buf |-> buf]
                  /\ ev' = Ev("rx", "receive_from", "get_sock", arg, NoRet, NoTx)
    /\ UNCHANGED <<udp6, details, last_confirm, last_send, now, sc>>

\* UdpTunnel::receive_from: a datagram arrives on the socket get_sock chose,
\* and is checked; a confirmation reads the clock.
recv_from(remote, payload) ==
    /\ rx.pc = "recv_from"
    /\ remote.fam = rx.sock
    /\ LET arg == [buf |-> rx.buf, remote |-> remote, payload |-> payload]
           r == Classify(rx.tunnel_addr, rx.token, remote, payload, rx.buf)
       IN  IF r = Ok(ConfirmedConnection)
              THEN /\ rx' = [pc |-> "store_last_confirm", arg |-> arg,
                             tunnel_addr |-> rx.tunnel_addr, token |-> rx.token,
                             t |-> now]
                   /\ ev' = Ev("rx", "receive_from", "token", arg, NoRet, NoTx)
              ELSE /\ rx' = Idle
                   /\ ev' = Ev("rx", "receive_from", "return", arg, r, NoTx)
    /\ UNCHANGED <<udp6, details, last_confirm, last_send, now, sc>>

\* UdpTunnel::receive_from: last_confirm.store, and Ok(ConfirmedConnection).
store_last_confirm ==
    /\ rx.pc = "store_last_confirm"
    /\ last_confirm' = rx.t
    /\ rx' = Idle
    /\ ev' = Ev("rx", "receive_from", "return", rx.arg,
                Ok(ConfirmedConnection), NoTx)
    /\ UNCHANGED <<udp6, details, last_send, now, sc>>

\* UdpTunnel::receive_from: udp.recv_from(buffer).await? fails.
recv_error ==
    /\ rx.pc = "recv_from"
    /\ rx' = Idle
    /\ ev' = Ev("rx", "receive_from", "return", [buf |-> rx.buf], Err("Io"), NoTx)
    /\ UNCHANGED <<udp6, details, last_confirm, last_send, now, sc>>

\* The receive task's 2 s timeout drops the receive_from it waits on.
recv_timeout ==
    /\ rx.pc = "recv_from"
    /\ rx' = Idle
    /\ ev' = Ev("rx", "receive_from", "timeout", [buf |-> rx.buf], NoRet, NoTx)
    /\ UNCHANGED <<udp6, details, last_confirm, last_send, now, sc>>

\* The process runs until main, the scheduler task, panics.
Alive == sc.pc # "panicked"

\* The channel under any order of calls: the receive task and the scheduler
\* task call its operations whenever they are between two calls.
Next ==
    \/ Alive /\ Tick /\ UNCHANGED lp
    \/ Alive /\ call_is_setup /\ UNCHANGED lp
    \/ Alive /\ (\E d \in Details : set_udp_tunnel(d)) /\ UNCHANGED lp
    \/ Alive /\ resend_token /\ UNCHANGED lp
    \/ Alive /\ (\E task \in {"rx", "sc"} : send_token(task)) /\ UNCHANGED lp
    \/ Alive /\ (\E task \in {"rx", "sc"} : store_last_send(task)) /\ UNCHANGED lp
    \/ Alive /\ (\E data \in OutPayloads, flow \in SendFlows : send(data, flow))
             /\ UNCHANGED lp
    \/ Alive /\ send_to /\ UNCHANGED lp
    \/ Alive /\ (\E buf \in BufLens : receive_from(buf)) /\ UNCHANGED lp
    \/ Alive /\ (\E remote \in Addrs, payload \in InPayloads :
                    recv_from(remote, payload)) /\ UNCHANGED lp
    \/ Alive /\ store_last_confirm /\ UNCHANGED lp
    \/ Alive /\ recv_error /\ UNCHANGED lp
    \/ Alive /\ recv_timeout /\ UNCHANGED lp

Spec == Init /\ [][Next]_vars

----------------------------------------------------------------------------
(* The receive loop of the driver: receive_from under a 2 s timeout, and   *)
(* what it does with each outcome. The scheduler installs details when the *)
(* control channel delivers them. Time moves in steps of TickMs; a timer   *)
(* that is due fires before time moves on, and clock readings past the     *)
(* horizon read as the horizon.                                            *)

TickMs == 1000
MaxLiveTicks == 3
TIMEOUT_MS == 2000
SLEEP_MS == 1000
LOOP_RESEND_MS == 15000

Horizon == StartTime + MaxLiveTicks * TickMs

\* Details the control channel delivers, and datagrams the socket receives.
LiveDetails == {[tunnel_addr |-> A4, token |-> T1]}
LivePayloads == {T1, <<1, 2, FOOTER_V4>>}
LiveRemotes == {A4, B4}

\* The await the loop is in has a timer that is due.
TimerDue ==
    \/ lp.at = "wait" /\ lp.waited >= TIMEOUT_MS
    \/ lp.at = "sleep" /\ lp.waited >= SLEEP_MS

LiveTick ==
    /\ Alive
    /\ ~TimerDue
    /\ now' = Min(now + TickMs, Horizon)
    /\ lp' = [lp EXCEPT !.waited = IF lp.at \in {"wait", "sleep"}
                                      THEN Min(lp.waited + TickMs, TIMEOUT_MS)
                                      ELSE lp.waited]
    /\ ev' = Ev("-", "tick", "tick", NoArg, NoRet, NoTx)
    /\ UNCHANGED <<udp6, details, last_confirm, last_send, rx, sc>>

\* timeout(2 s, udp_tunnel.receive_from(&mut buffer)): the call.
loop_receive_from ==
    /\ Alive
    /\ lp.at = "top"
    /\ receive_from(MaxBuf)
    /\ lp' = IF rx'.pc = "recv_from" THEN Loop("wait", lp.last_confirm)
             ELSE IF rx'.pc = "panicked" THEN lp
             ELSE Loop("sleep", lp.last_confirm)

\* A datagram arrives before the timeout: Ok(Err(..)) logs and sleeps,
\* Ok(Ok(ReceivedPacket)) truncates the buffer to the payload and replies.
loop_recv_from(remote, payload) ==
    /\ Alive
    /\ lp.at = "wait"
    /\ recv_from(remote, payload)
    /\ lp' = IF ev'.step = "token" THEN lp
             ELSE IF ev'.ret.k = "Err" THEN Loop("sleep", lp.last_confirm)
             ELSE [at |-> "reply", last_confirm |-> lp.last_confirm, waited |-> 0,
                   data |-> SubSeq(payload, 1, ev'.ret.v.bytes),
                   flow |-> ev'.ret.v.flow]

\* Ok(Ok(ConfirmedConnection)): last_confirm = now_milli()
loop_confirmed ==
    /\ Alive
    /\ lp.at = "wait"
    /\ store_last_confirm
    /\ lp' = Loop("top", now)

\* Ok(Err(error)) out of recv_from itself
loop_recv_error ==
    /\ Alive
    /\ lp.at = "wait"
    /\ recv_error
    /\ lp' = Loop("sleep", lp.last_confirm)

\* Err(_): the 2 s passed; the token is resent when the loop's last_confirm
\* is more than 15 s old.
loop_timeout ==
    /\ Alive
    /\ lp.at = "wait"
    /\ lp.waited >= TIMEOUT_MS
    /\ recv_timeout
    /\ lp' = IF now - lp.last_confirm > LOOP_RESEND_MS
                THEN Loop("resend", lp.last_confirm)
                ELSE Loop("top", lp.last_confirm)

\* udp_tunnel.resend_setup().await, the channel's resend_token
loop_resend_token ==
    /\ Alive
    /\ lp.at = "resend"
    /\ resend_token
    /\ lp' = IF ev'.step = "return" THEN Loop("top", lp.last_confirm) ELSE lp

loop_send_token ==
    /\ Alive
    /\ lp.at = "resend"
    /\ send_token("rx")
    /\ lp' = IF ev'.step = "return" THEN Loop("top", lp.last_confirm) ELSE lp

loop_store_last_send ==
    /\ Alive
    /\ lp.at = "resend"
    /\ store_last_send("rx")
    /\ lp' = Loop("top", lp.last_confirm)

\* udp_tunnel.send(&mut buffer, flow.flip()).await
loop_send ==
    /\ Alive
    /\ lp.at = "reply"
    /\ send(lp.data, flip(lp.flow))
    /\ lp' = IF rx'.pc = "idle" THEN Loop("top", lp.last_confirm) ELSE lp

loop_send_to ==
    /\ Alive
    /\ lp.at = "reply"
    /\ send_to
    /\ lp' = Loop("top", lp.last_confirm)

\* tokio::time::sleep(1 s) is over.
loop_wake ==
    /\ Alive
    /\ lp.at = "sleep"
    /\ lp.waited >= SLEEP_MS
    /\ lp' = Loop("top", lp.last_confirm)
    /\ ev' = Ev("rx", "sleep", "return", NoArg, NoRet, NoTx)
    /\ UNCHANGED <<udp6, details, last_confirm, last_send, now, rx, sc>>

\* The scheduler: a UdpChannelDetails response, and the ping tick.
sched_set_udp_tunnel(d) == Alive /\ set_udp_tunnel(d) /\ UNCHANGED lp
sched_send_token == Alive /\ send_token("sc") /\ UNCHANGED lp
sched_store_last_send == Alive /\ store_last_send("sc") /\ UNCHANGED lp
sched_is_setup == Alive /\ call_is_setup /\ UNCHANGED lp

LiveNext ==
    \/ LiveTick
    \/ loop_receive_from
    \/ \E remote \in LiveRemotes, payload \in LivePayloads :
            loop_recv_from(remote, payload)
    \/ loop_confirmed
    \/ loop_recv_error
    \/ loop_timeout
    \/ loop_resend_token
    \/ loop_send_token
    \/ loop_store_last_send
    \/ loop_send
    \/ loop_send_to
    \/ loop_wake
    \/ \E d \in LiveDetails : sched_set_udp_tunnel(d)
    \/ sched_send_token
    \/ sched_store_last_send
    \/ sched_is_setup

\* The runtime runs every task that can take a step, timers fire and time
\* moves on; when a datagram or a control message arrives is up to the peer.
LiveFairness ==
    /\ WF_vars(LiveTick)
    /\ WF_vars(loop_receive_from)
    /\ WF_vars(loop_confirmed)
    /\ WF_vars(loop_timeout)
    /\ WF_vars(loop_resend_token)
    /\ WF_vars(loop_send_token)
    /\ WF_vars(loop_store_last_send)
    /\ WF_vars(loop_send)
    /\ WF_vars(loop_send_to)
    /\ WF_vars(loop_wake)
    /\ WF_vars(sched_send_token)
    /\ WF_vars(sched_store_last_send)

LiveSpec == Init /\ [][LiveNext]_vars /\ LiveFairness

----------------------------------------------------------------------------
(* The retry predicates over the timestamps a channel can hold.            *)

\* Clock readings: the thresholds, and the values next to them.
PredTimes ==
    {StartTime + o : o \in {0, 1000, 5000, 5001, 6000, 9000, 10000, 10001, 11000}}

\* A channel at any moment of its life: each timestamp is 0 (never stored) or
\* a clock reading of the past.
PredInit ==
    /\ udp6 = FALSE
    /\ details = None
    /\ now \in PredTimes
    /\ last_confirm \in {0} \cup {t \in PredTimes : t <= now}
    /\ last_send \in {0} \cup {t \in PredTimes : t <= now}
    /\ rx = Idle
    /\ sc = Idle
    /\ ev = Ev("-", "new", "return", NoArg, NoRet, NoTx)
    /\ lp = LoopTop

call_requires_resend ==
    /\ ev' = Ev("-", "requires_resend", "return", NoArg,
                Ok(Bool(requires_resend)), NoTx)
    /\ UNCHANGED <<udp6, details, last_confirm, last_send, now, rx, sc, lp>>

call_requires_auth ==
    /\ ev' = Ev("-", "requires_auth", "return", NoArg,
                Ok(Bool(requires_auth)), NoTx)
    /\ UNCHANGED <<udp6, details, last_confirm, last_send, now, rx, sc, lp>>

PredNext == call_requires_resend \/ call_requires_auth

PredSpec == PredInit /\ [][PredNext]_vars

----------------------------------------------------------------------------
(* Claims.                                                                 *)

\* The step hands the blocked receive_from a datagram (recv_from returned Ok).
Delivery ==
    /\ rx.pc = "recv_from"
    /\ ev'.task = "rx"
    /\ ev'.op = "receive_from"
    /\ ev'.step \in {"return", "token"}
    /\ DOMAIN ev'.arg = {"buf", "remote", "payload"}

\* The step is the receive task's, out of the position pc.
RxStepFrom(pc) == rx.pc = pc /\ ev'.task = "rx" /\ rx' # rx

\* C1: a datagram whose sender is not the tunnel endpoint that receive_from
\* read from the installed details makes it return InvalidData, whatever the
\* payload, and changes neither last_confirm nor last_send nor the details.
C1_SpoofingRejected ==
    [][(Delivery /\ ev'.arg.remote # rx.tunnel_addr) =>
          /\ ev'.step = "return"
          /\ ev'.ret = Err("InvalidData")
          /\ rx' = Idle
          /\ UNCHANGED <<last_confirm, last_send, details>>]_vars

\* receive_from returned InvalidData for the installed token sent from
\* another port of the endpoint's host.
C1_Witness ==
    /\ ev.op = "receive_from"
    /\ ev.step = "return"
    /\ ev.ret = Err("InvalidData")
    /\ details.some
    /\ "remote" \in DOMAIN ev.arg
    /\ ev.arg.remote # details.v.tunnel_addr
    /\ ev.arg.remote.ip = details.v.tunnel_addr.ip
    /\ ev.arg.payload = details.v.token
    /\ ev.arg.buf >= Len(ev.arg.payload)

\* The buffer of buf bytes holds the datagram whole.
BufferHolds(payload, buf) == Len(payload) <= buf

\* The token round trip, over every datagram or (whole) over those that the
\* receive buffer holds whole: from the
\* endpoint, a payload equal to the token is recognised, its clock reading is
\* what last_confirm is set to and ConfirmedConnection is returned; any other
\* payload is returned as something else with last_confirm unchanged; and
\* nothing but a recognised token stores last_confirm.
TokenRoundTrip(whole) ==
    /\ (Delivery /\ ev'.arg.remote = rx.tunnel_addr
            /\ (whole => BufferHolds(ev'.arg.payload, rx.buf))) =>
          IF ev'.arg.payload = rx.token
             THEN /\ ev'.step = "token"
                  /\ rx'.pc = "store_last_confirm"
                  /\ rx'.t = now
                  /\ rx'.arg = ev'.arg
             ELSE /\ ev'.step = "return"
                  /\ ev'.ret # Ok(ConfirmedConnection)
                  /\ rx' = Idle
                  /\ last_confirm' = last_confirm
    /\ RxStepFrom("store_last_confirm") =>
          /\ last_confirm' = rx.t
          /\ ev'.step = "return"
          /\ ev'.ret = Ok(ConfirmedConnection)
          /\ ev'.arg = rx.arg
    /\ last_confirm' # last_confirm =>
          /\ RxStepFrom("store_last_confirm")
          /\ (whole => BufferHolds(rx.arg.payload, rx.arg.buf)) =>
                rx.arg.payload = rx.token

\* C2 as stated: with details {token = T} read by receive_from, a datagram from
\* the endpoint whose payload is T is returned as ConfirmedConnection and sets
\* last_confirm to the time read; a payload that differs from T in a byte or
\* in length is never returned as ConfirmedConnection and leaves last_confirm
\* unchanged.
C2_AsStated == [][TokenRoundTrip(FALSE)]_vars

\* C2: the same, for a datagram that the receive buffer holds whole.
C2_TokenRoundTrip == [][TokenRoundTrip(TRUE)]_vars

\* ConfirmedConnection was returned for the token, and last_confirm holds the
\* clock reading taken for it, after the clock had moved at least once.
C2_Witness ==
    /\ ev.op = "receive_from"
    /\ ev.step = "return"
    /\ ev.ret = Ok(ConfirmedConnection)
    /\ ev.arg.payload = T2
    /\ ev.arg.buf >= Len(T2)
    /\ last_confirm > StartTime

\* C3: last_confirm is stored only for a datagram that comes from the endpoint
\* of, and carries the token of, the details installed when it is stored.
C3_ConfirmOnlyInstalled ==
    [][RxStepFrom("store_last_confirm") =>
          /\ details.some
          /\ rx.arg.remote = details.v.tunnel_addr
          /\ Received(rx.arg.payload, rx.arg.buf) = details.v.token]_vars

\* C4: set_udp_tunnel called with details equal to the installed ones returns
\* Ok in that step, transmits nothing and changes neither details nor
\* last_send nor last_confirm.
C4_NoopOnUnchanged ==
    [][(sc.pc = "idle" /\ ev'.task = "sc" /\ ev'.op = "set_udp_tunnel"
            /\ details.some /\ ev'.arg = details.v) =>
          /\ ev'.step = "unchanged"
          /\ ev'.ret = Ok(Unit)
          /\ ~ev'.tx.sent
          /\ sc' = Idle
          /\ UNCHANGED <<details, last_send, last_confirm>>]_vars

\* The second of two set_udp_tunnel calls with the same details returned,
\* after the first one transmitted the token and stored last_send.
C4_Witness ==
    /\ ev.op = "set_udp_tunnel"
    /\ ev.step = "unchanged"
    /\ details = Some(ev.arg)
    /\ last_send # 0
    /\ sc = Idle

\* C5: requires_resend() is true exactly when more than 10,000 ms have passed
\* since last_confirm; it is true while last_confirm holds its initial value;
\* it is true 11,000 ms after a confirmation and false 9,000 ms after one.
C5_RequiresResend ==
    ev.op = "requires_resend" =>
        /\ ev.ret.v.b <=> (now - last_confirm > 10000)
        /\ last_confirm = 0 => ev.ret.v.b
        /\ now - last_confirm = 11000 => ev.ret.v.b
        /\ now - last_confirm = 9000 => ~ev.ret.v.b

\* requires_resend() answered 10,001 ms after a confirmation.
C5_Witness ==
    /\ ev.op = "requires_resend"
    /\ last_confirm # 0
    /\ now - last_confirm = 10001
    /\ ev.ret.v.b

\* C6 as stated: requires_auth() is true when last_confirm < last_send and more
\* than 5,000 ms have passed since last_send, and false whenever
\* last_confirm >= last_send.
C6_AsStated ==
    ev.op = "requires_auth" =>
        /\ (last_confirm < last_send /\ now - last_send > 5000) => ev.ret.v.b
        /\ last_confirm >= last_send => ~ev.ret.v.b

\* C6: requires_auth() is true when last_confirm < last_send and more than
\* 5,000 ms have passed since last_send, and false whenever
\* last_confirm > last_send, however much time has passed.
C6_AuthRetry ==
    ev.op = "requires_auth" =>
        /\ (last_confirm < last_send /\ now - last_send > 5000) => ev.ret.v.b
        /\ last_confirm > last_send => ~ev.ret.v.b

\* requires_auth() answered false more than 5,000 ms after a send that a
\* later confirmation covers.
C6_Witness ==
    /\ ev.op = "requires_auth"
    /\ last_send # 0
    /\ last_confirm > last_send
    /\ now - last_send > 5000
    /\ ~ev.ret.v.b

\* C7: requires_auth() is true if and only if last_send >= last_confirm and
\* now - last_send > 5000.
C7_RequiresAuthIff ==
    ev.op = "requires_auth" =>
        (ev.ret.v.b <=> (last_send >= last_confirm /\ now - last_send > 5000))

\* requires_auth() answered true for a send and a confirmation of the same
\* millisecond, 5,001 ms later.
C7_Witness ==
    /\ ev.op = "requires_auth"
    /\ last_send # 0
    /\ last_send = last_confirm
    /\ now - last_send = 5001
    /\ ev.ret.v.b


\* C8: resend_token with no details installed returns Ok(false) in that step,
\* transmits nothing and changes no state; with details installed it reads
\* them, transmits nothing but their token to their endpoint, and on a
\* successful transmission reads the clock, stores that reading in last_send
\* and returns Ok(true); no step of it changes details or last_confirm.
C8_ResendToken ==
    [][/\ (rx.pc = "idle" /\ ev'.task = "rx" /\ ev'.op = "resend_token") =>
             /\ UNCHANGED <<details, last_send, last_confirm>>
             /\ ~ev'.tx.sent
             /\ IF details.some
                   THEN /\ rx'.pc = "send_token"
                        /\ rx'.d = details.v
                   ELSE /\ ev'.ret = Ok(Bool(FALSE))
                        /\ rx' = Idle
       /\ (RxStepFrom("send_token") /\ rx.op = "resend_token") =>
             /\ UNCHANGED <<details, last_send, last_confirm>>
             /\ ev'.tx.sent =>
                   /\ ev'.tx.data = rx.d.token
                   /\ ev'.tx.dst = rx.d.tunnel_addr
                   /\ ev'.tx.sock = rx.d.tunnel_addr.fam
             /\ IF ev'.tx.sent /\ ev'.tx.ok
                   THEN /\ rx'.pc = "store_last_send"
                        /\ rx'.t = now
                   ELSE /\ rx' = Idle
                        /\ ev'.ret.k = "Err"
       /\ (RxStepFrom("store_last_send") /\ rx.op = "resend_token") =>
             /\ last_send' = rx.t
             /\ ev'.ret = Ok(Bool(TRUE))
             /\ rx' = Idle
             /\ UNCHANGED <<details, last_confirm>>]_vars

\* resend_token returned Ok(true) and last_send holds its clock reading,
\* with a confirmation recorded before it left as it was.
C8_Witness ==
    /\ ev.task = "rx"
    /\ ev.op = "resend_token"
    /\ ev.step = "return"
    /\ ev.ret = Ok(Bool(TRUE))
    /\ details = Some(ev.arg)
    /\ last_send > StartTime
    /\ last_confirm = StartTime

\* C9: while no details are installed, send and receive_from return
\* NotConnected in the step that calls them, transmit nothing, read no
\* datagram and change no state; every datagram that send transmits, and every
\* datagram that receive_from takes in, finds details installed.
C9_NoDataBeforeSetup ==
    [][/\ (rx.pc = "idle" /\ ev'.task = "rx"
              /\ ev'.op \in {"send", "receive_from"} /\ ~details.some) =>
             /\ ev'.step = "return"
             /\ ev'.ret = Err("NotConnected")
             /\ ~ev'.tx.sent
             /\ rx' = Idle
             /\ UNCHANGED <<details, last_send, last_confirm>>
       /\ (ev'.task = "rx" /\ ev'.op = "send" /\ ev'.tx.sent) => details.some
       /\ Delivery => details.some]_vars

\* send returned NotConnected before any set_udp_tunnel.
C9_Witness ==
    /\ ev.op = "send"
    /\ ev.step = "return"
    /\ ev.ret = Err("NotConnected")
    /\ ~details.some
    /\ rx = Idle

\* C10: with an IPv6 endpoint installed and no IPv6 socket bound, send and
\* receive_from return Unsupported in the step that calls them: nothing is
\* transmitted and the calling task is not aborted.
C10_UnsupportedIsReturned ==
    [][(rx.pc = "idle" /\ ev'.task = "rx"
            /\ ev'.op \in {"send", "receive_from"}
            /\ details.some /\ details.v.tunnel_addr.fam = 6 /\ ~udp6) =>
          /\ ev'.step = "return"
          /\ ev'.ret = Err("Unsupported")
          /\ ~ev'.tx.sent
          /\ rx'.pc # "panicked"]_vars

\* C11: a datagram from the tunnel endpoint that is not the token and is
\* shorter than the smallest flow tail makes receive_from return WriteZero,
\* for every buffer that holds the datagram whole.
C11_UndersizedIsWriteZero ==
    [][(/\ Delivery
        /\ ev'.arg.remote = rx.tunnel_addr
        /\ ev'.arg.payload # rx.token
        /\ Len(ev'.arg.payload) < Min(len_v4, len_v6)
        /\ BufferHolds(ev'.arg.payload, rx.buf)) =>
          /\ ev'.step = "return"
          /\ ev'.ret = Err("WriteZero")]_vars

\* C12: the step of set_udp_tunnel that replaces installed details leaves
\* the channel as if no confirmation had occurred: requires_resend holds and
\* last_send < last_confirm does not.
C12_ReplaceDiscardsConfirm ==
    [][(/\ sc.pc = "idle"
        /\ ev'.task = "sc"
        /\ ev'.op = "set_udp_tunnel"
        /\ ev'.step = "replace"
        /\ details.some) =>
          /\ requires_resend'
          /\ ~(last_send' < last_confirm')]_vars

\* The task's step hands a token to a socket, and the socket takes it.
TokenSent(task) ==
    /\ ev'.task = task
    /\ ev'.op \in {"set_udp_tunnel", "resend_token"}
    /\ ev'.tx.sent
    /\ ev'.tx.ok

\* The task's step is a transmission attempt of send_token.
Attempt(task) == Local(task).pc = "send_token" /\ ev'.task = task

\* C16: last_send is written only by a token transmission that succeeded: a
\* task gets to the store of last_send only by a token its socket took, the
\* store is the only step that changes last_send, an attempt that fails
\* returns its error (Io or Unsupported) with last_send unchanged, and send
\* and receive_from never change last_send.
C16_LastSendOnlyAfterSuccess ==
    [][/\ last_send' # last_send =>
            \E task \in {"rx", "sc"} :
                /\ Local(task).pc = "store_last_send"
                /\ ev'.task = task
                /\ last_send' = Local(task).t
       /\ (rx'.pc = "store_last_send" /\ rx.pc # "store_last_send") =>
            TokenSent("rx") /\ rx.pc = "send_token"
       /\ (sc'.pc = "store_last_send" /\ sc.pc # "store_last_send") =>
            TokenSent("sc") /\ sc.pc = "send_token"
       /\ \A task \in {"rx", "sc"} :
            (Attempt(task) /\ ~TokenSent(task)) =>
                /\ ev'.step = "return"
                /\ ev'.ret = (IF ev'.tx.sent THEN Err("Io") ELSE Err("Unsupported"))
                /\ last_send' = last_send
       /\ ev'.op \in {"send", "receive_from"} => last_send' = last_send]_vars

\* resend_token returned the error of a send_to that failed, and last_send
\* is still that of an earlier transmission.
C16_Witness ==
    /\ ev.op = "resend_token"
    /\ ev.step = "return"
    /\ ev.ret = Err("Io")
    /\ ev.tx.sent
    /\ ~ev.tx.ok
    /\ last_send # 0
    /\ last_send < now

\* C17: no step lowers last_confirm or last_send; the clock of the model
\* never runs backwards.
C17_TimestampsMonotonic ==
    [][/\ now' >= now
       /\ last_send' >= last_send
       /\ last_confirm' >= last_confirm]_vars

\* C19: every token handed to a socket is the token of the details installed
\* at that moment, sent to their endpoint, and every store of last_send is
\* made for the details installed at that moment.
C19_InstalledTokenOnly ==
    [][/\ (ev'.op \in {"set_udp_tunnel", "resend_token"} /\ ev'.tx.sent) =>
            /\ details.some
            /\ ev'.tx.data = details.v.token
            /\ ev'.tx.dst = details.v.tunnel_addr
       /\ \A task \in {"rx", "sc"} :
            (Local(task).pc = "store_last_send" /\ ev'.task = task) =>
                /\ details.some
                /\ Local(task).d = details.v]_vars

\* C13: no failure of a channel operation ends the scheduler loop or the
\* receive loop, and a set_udp_tunnel that returns an error leaves the
\* scheduler at its next iteration.
C13_FailuresNotFatal ==
    [][/\ rx'.pc # "panicked"
       /\ sc'.pc # "panicked"
       /\ (ev'.task = "sc" /\ ev'.op = "set_udp_tunnel" /\ ev'.ret.k = "Err") =>
            sc' = Idle]_vars

\* C18: is_setup answers true exactly when details are present, the
\* scheduler's ping tick sends the setup request exactly when it answers
\* false, no step empties the slot, and a set_udp_tunnel whose transmission
\* failed has installed its details all the same.
C18_SetupRequestedUntilInstalled ==
    [][/\ details.some => details'.some
       /\ (ev'.task = "sc" /\ ev'.op = "is_setup") =>
            /\ ev'.ret = Ok(Bool(details.some))
            /\ ev'.arg.setup_request = ~details.some
            /\ UNCHANGED details
       /\ (ev'.task = "sc" /\ ev'.op = "set_udp_tunnel") =>
            /\ details'.some
            /\ details'.v = ev'.arg]_vars

\* A ping tick after set_udp_tunnel installed details that no datagram has
\* confirmed yet: is_setup answered true and no setup request was sent.
C18_Witness ==
    /\ ev.op = "is_setup"
    /\ ev.ret = Ok(Bool(TRUE))
    /\ ~ev.arg.setup_request
    /\ details.some
    /\ last_confirm = 0

\* The datagram s is some payload followed by the tail of the flow f.
EndsWithTail(s, f) ==
    /\ Len(s) >= flow_len(f)
    /\ SubSeq(s, Len(s) - flow_len(f) + 1, Len(s)) = write_to(f)

\* C15: with details installed, send(payload, flow) hands exactly one
\* datagram, payload followed by the tail of flow, to the socket of the
\* installed endpoint's family, for that endpoint, and its tail decodes back
\* to flow; a datagram payload || tail(F) from the endpoint makes
\* receive_from return ReceivedPacket{bytes = len(payload), flow = F}.
C15_MultiplexedReply ==
    [][/\ (rx.pc = "idle" /\ ev'.task = "rx" /\ ev'.op = "send" /\ details.some) =>
            /\ rx'.pc = "send_to"
            /\ rx'.sock = details.v.tunnel_addr.fam
            /\ rx'.tunnel_addr = details.v.tunnel_addr
            /\ rx'.packet = ev'.arg.data \o write_to(ev'.arg.flow)
            /\ ~ev'.tx.sent
       /\ (rx.pc = "send_to" /\ ev'.task = "rx") =>
            /\ ev'.tx.sent
            /\ ev'.tx.sock = rx.sock
            /\ ev'.tx.dst = rx.tunnel_addr
            /\ ev'.tx.data = ev'.arg.data \o write_to(ev'.arg.flow)
            /\ from_tail(ev'.tx.data) = Some(ev'.arg.flow)
            /\ rx' = Idle
       /\ (Delivery /\ ev'.arg.remote = rx.tunnel_addr) =>
            \A F \in SendFlows :
                EndsWithTail(ev'.arg.payload, F) =>
                    /\ ev'.step = "return"
                    /\ ev'.ret = Ok(ReceivedPacket(
                                      Len(ev'.arg.payload) - flow_len(F), F))]_vars

\* C20: no task owns a guard of the details lock while it waits on a socket,
\* so every step of a set_udp_tunnel call can be taken wherever the receive
\* task is: the scheduler between two calls can take the write lock for any
\* details, and a call under way can send its token and store last_send.
C20_NoLockAcrossIo ==
    /\ ~HoldsGuard(rx)
    /\ ~HoldsGuard(sc)
    /\ sc.pc = "idle" => \A d \in Details : ENABLED set_udp_tunnel(d)
    /\ sc.pc = "send_token" => ENABLED send_token("sc")
    /\ sc.pc = "store_last_send" => ENABLED store_last_send("sc")

\* set_udp_tunnel replaced the details and returned while the receive task
\* waits in recv_from with the endpoint and token it read before.
C20_Witness ==
    /\ rx.pc = "recv_from"
    /\ ev.task = "sc"
    /\ ev.op = "set_udp_tunnel"
    /\ ev.step = "return"
    /\ ev.ret = Ok(Unit)
    /\ details.some
    /\ <<rx.tunnel_addr, rx.token>> # <<details.v.tunnel_addr, details.v.token>>

\* Details are installed and the receive loop's last confirmation is more
\* than 15,000 ms old.
Overdue == details.some /\ now - lp.last_confirm > LOOP_RESEND_MS

\* C14: whenever details are installed and the receive loop has had no
\* confirmation for more than 15,000 ms, the loop eventually invokes
\* resend_token, whatever datagrams arrive in the meantime; a confirmation
\* that arrives first, or the end of the process or of the receive task,
\* discharges the obligation.
C14_EventuallyResent ==
    Overdue ~> (\/ ev.op = "resend_token"
                \/ ~Overdue
                \/ ~Alive
                \/ rx.pc = "panicked")

====
